---- MODULE Spec2Model ----
(***************************************************************************)
(* Research Agent API (src/backend/main.py): the POST /research pipeline   *)
(* (search, per-result content extraction, summary, history save), the     *)
(* history store on SQLite, and the two history read endpoints.            *)
(*                                                                         *)
(* Text values are modelled as follows.  Titles and urls are the position  *)
(* of their block on the search page.  A snippet is "" or "snip".  A page  *)
(* content string is represented by its length.  A summary is a sequence   *)
(* of string fragments whose concatenation is the Python string, so that   *)
(* startswith() is a test of the first fragment.  A timestamp text is the  *)
(* sequence of the character codes of its variable part.                   *)
(***************************************************************************)
EXTENDS Integers, Sequences, FiniteSets, TLC

(***************************************************************************)
(* Bounds of the model                                                     *)
(***************************************************************************)
\* POST /research requests started over the life of the service
MaxRequests == 2
\* result blocks on one search page
MaxBlocks == 2

\* request slots served concurrently
Slots == {"a", "b"}
\* query texts
Texts == {"q1", "q2"}

(***************************************************************************)
(* Query (pydantic model, lines 20-22)                                     *)
(***************************************************************************)
DefaultNumResults == 5

\* the num_results member of the request body: absent, null, or an integer
NumResultsInputs ==
    {[kind |-> "absent", v |-> 0], [kind |-> "null", v |-> 0]}
        \cup {[kind |-> "int", v |-> n] : n \in {-1, 0, 1}}

Query(text, nr) ==
    [text |-> text,
     num_results |-> IF nr.kind = "absent"
                     THEN [kind |-> "int", v |-> DefaultNumResults]
                     ELSE nr]

(***************************************************************************)
(* search_duckduckgo (lines 34-86)                                         *)
(***************************************************************************)
\* a result block of the page: which of its three elements are present
Blocks ==
    {[title |-> TRUE, url |-> TRUE, snippet |-> TRUE],
     [title |-> FALSE, url |-> TRUE, snippet |-> TRUE],
     [title |-> TRUE, url |-> FALSE, snippet |-> TRUE]}

Pages == UNION {[1..n -> Blocks] : n \in 0..MaxBlocks}

SearchFetches == {"ok", "RequestException"}

\* lines 64-81: the dict appended for block i of the page
ResultOf(page, i) ==
    [title |-> i, url |-> i,
     snippet |-> IF page[i].snippet THEN "snip" ELSE ""]

\* lines 62-63 and 68-69: a block without title or url is skipped
BlockParses(b) == b.title /\ b.url

\* lines 83-84: the break test after an append; None >= int raises TypeError
LimitReached(results, num_results) == Len(results) >= num_results.v

RECURSIVE Scan(_, _, _, _)
\* lines 58-86: the loop over soup.select('.result')
Scan(page, i, results, num_results) ==
    IF i > Len(page) THEN [raised |-> FALSE, results |-> results]
    ELSE IF ~BlockParses(page[i]) THEN Scan(page, i + 1, results, num_results)
    ELSE LET appended == Append(results, ResultOf(page, i)) IN
         IF num_results.kind = "null"
         THEN [raised |-> TRUE, results |-> <<>>]
         ELSE IF LimitReached(appended, num_results)
              THEN [raised |-> FALSE, results |-> appended]
              ELSE Scan(page, i + 1, appended, num_results)

search_duckduckgo(fetch, page, num_results) ==
    IF fetch = "RequestException"
    THEN [raised |-> FALSE, results |-> <<>>]
    ELSE Scan(page, 1, <<>>, num_results)

\* the number of blocks of the page that parse into a result
RECURSIVE ParsedBlocks(_)
ParsedBlocks(page) ==
    IF page = <<>> THEN 0
    ELSE (IF BlockParses(page[Len(page)]) THEN 1 ELSE 0)
            + ParsedBlocks(SubSeq(page, 1, Len(page) - 1))

(***************************************************************************)
(* extract_content (lines 88-150)                                          *)
(***************************************************************************)
MaxLength == 8000
EllipsisLength == 3

\* value of a header that the response does not carry
NoHeader == "<absent>"

\* the two header names that matter, as requests' case-insensitive dict
\* keys them: the standard Content-Type and the name with an underscore
HeaderNames == {"content-type", "content_type"}

MediaTypes == {"text/html", "TEXT/HTML; charset=utf-8", "application/pdf"}

\* str.lower() on the header values of the model
Lower(s) == IF s = "TEXT/HTML; charset=utf-8" THEN "text/html; charset=utf-8" ELSE s

\* 'text/html' in s
ContainsTextHtml(s) == s \in {"text/html", "text/html; charset=utf-8"}

\* response.headers.get(name, default): the lookup ignores case only
HeadersGet(headers, name, default) ==
    LET key == IF name = "Content_Type" THEN "content_type"
               ELSE IF name = "Content-Type" THEN "content-type"
               ELSE name
    IN IF key \in DOMAIN headers /\ headers[key] # NoHeader
       THEN headers[key] ELSE default

\* the document: text length under the first matching container (-1: no
\* container matches), of the joined <p> elements (-1: no <p>), of the
\* whole page, all after whitespace clean-up; raises: the parse throws
Bodies ==
    {[container |-> 8001, paragraphs |-> 10, full |-> 8100, raises |-> FALSE],
     [container |-> 0, paragraphs |-> 10, full |-> 10, raises |-> FALSE],
     [container |-> -1, paragraphs |-> 8001, full |-> 8100, raises |-> FALSE],
     [container |-> -1, paragraphs |-> -1, full |-> 0, raises |-> FALSE],
     [container |-> -1, paragraphs |-> -1, full |-> 10, raises |-> TRUE]}

NoHeaders == [n \in HeaderNames |-> NoHeader]

\* requests.get raises, or returns a response
Responses ==
    [net : {"RequestException"}, status : {0}, headers : {NoHeaders},
     body : {CHOOSE b \in Bodies : b.raises}]
    \cup
    [net : {"ok"}, status : {200, 404},
     headers : {h \in [HeaderNames -> MediaTypes \cup {NoHeader}] :
                    h["content_type"] \in {"text/html", NoHeader}},
     body : Bodies]

\* the header name the code reads at line 103
ContentTypeHeaderRead == "Content_Type"

\* lines 99-110: TRUE when the response goes on to parsing
FetchUsable(resp) ==
    /\ resp.net = "ok"
    /\ resp.status < 400                \* raise_for_status
    /\ ContainsTextHtml(Lower(HeadersGet(resp.headers, ContentTypeHeaderRead, "")))

\* lines 118-132: main container, else paragraphs, else the whole text
SelectText(body) ==
    IF body.container >= 0 THEN body.container
    ELSE IF body.paragraphs >= 0 THEN body.paragraphs
    ELSE body.full

\* lines 143-144
Truncate(len, max_length) ==
    IF len > max_length THEN max_length + EllipsisLength ELSE len

\* the length of the string extract_content returns (0: the empty string)
extract_content(resp, max_length) ==
    IF ~FetchUsable(resp) THEN 0
    ELSE IF resp.body.raises THEN 0
    ELSE Truncate(SelectText(resp.body), max_length)

(***************************************************************************)
(* summarize_content (lines 152-198)                                       *)
(***************************************************************************)
\* names bound in the module by its import statements (lines 1-13)
ModuleGlobals ==
    {"FastAPI", "HTTPException", "BaseModel", "List", "Optional", "uvicorn",
     "requests", "BeautifulSoup", "urllib", "OpenAI", "os", "sqlite3", "json",
     "datetime", "load_dotenv"}

FailurePrefix == "Failed to generate summary"

\* line 198
FailureMessage(err) == <<FailurePrefix, ". Error: ", err>>

\* line 280
Placeholder == <<FailurePrefix, ". Please try again otr refine your query.">>

\* str.startswith on a summary
StartsWith(s, prefix) == Len(s) >= 1 /\ s[1] = prefix

\* outcomes of the chat completion call: it raises, or returns stripped text
ApiOutcomes ==
    {[raises |-> TRUE, err |-> "AuthenticationError", text |-> <<>>],
     [raises |-> TRUE, err |-> "APITimeoutError", text |-> <<>>],
     [raises |-> FALSE, err |-> "", text |-> <<"- bullet points">>],
     [raises |-> FALSE, err |-> "", text |-> <<>>]}

\* lines 184-198: the try block; line 185 reads the global name openai
summarize_content(contents, api) ==
    IF "openai" \notin ModuleGlobals
    THEN [raised |-> TRUE, summary |-> FailureMessage("name 'openai' is not defined")]
    ELSE IF api.raises
         THEN [raised |-> TRUE, summary |-> FailureMessage(api.err)]
         ELSE [raised |-> FALSE, summary |-> api.text]

(***************************************************************************)
(* History store (lines 200-241)                                           *)
(***************************************************************************)
\* datetime.now(): seconds and microseconds of the wall clock
Times == [sec : {0, 1}, micro : {0, 5}] \ {[sec |-> 1, micro |-> 5]}

\* datetime.isoformat(): the microseconds are left out when they are zero.
\* The text is the character codes of the second's last digit, then of
\* "." and the microsecond digit.
IsoFormat(t) ==
    IF t.micro = 0 THEN <<48 + t.sec>> ELSE <<48 + t.sec, 46, 48 + t.micro>>

\* datetime.fromisoformat on such a text
FromIsoFormat(s) ==
    [sec |-> s[1] - 48, micro |-> IF Len(s) = 1 THEN 0 ELSE s[3] - 48]

TimeLeq(t, u) == t.sec < u.sec \/ (t.sec = u.sec /\ t.micro <= u.micro)

RECURSIVE TextLeq(_, _)
\* SQLite's BINARY collation on TEXT: memcmp, then the shorter first
TextLeq(a, b) ==
    IF a = <<>> THEN TRUE
    ELSE IF b = <<>> THEN FALSE
    ELSE IF a[1] # b[1] THEN a[1] < b[1]
    ELSE TextLeq(Tail(a), Tail(b))

\* json.dumps / json.loads: a text form and a structured form of one value
JsonDumps(value) == [form |-> "text", val |-> value]
JsonLoads(text) == text.val

\* an insert that is executed twice
InsertRow_Twice(table, lastId, query, results, timestamp) ==
    LET row == [id |-> lastId + 1, query |-> query,
                results |-> JsonDumps(results), timestamp |-> timestamp]
    IN Append(Append(table, row), [row EXCEPT !.id = lastId + 2])

\* an insert that takes the id of the newest row again and replaces it
InsertRow_ReplaceNewest(table, lastId, query, results, timestamp) ==
    LET row == [id |-> IF lastId = 0 THEN 1 ELSE lastId, query |-> query,
                results |-> JsonDumps(results), timestamp |-> timestamp]
    IN IF table = <<>> THEN <<row>>
       ELSE Append(SubSeq(table, 1, Len(table) - 1), row)

\* lines 218-222: the INSERT; AUTOINCREMENT takes the id after the largest
\* id ever issued (sqlite_sequence)
InsertRow(table, lastId, query, results, timestamp) ==
    Append(table, [id |-> lastId + 1, query |-> query,
                   results |-> JsonDumps(results), timestamp |-> timestamp])

\* ORDER BY id DESC: newest insert first
OrderedByIdDesc(list) ==
    \A i \in 1..Len(list) : \A j \in 1..Len(list) :
        i < j => list[j].id <= list[i].id

\* line 229: ORDER BY timestamp DESC, as a test of a result list
OrderedByTimestampDesc(list) ==
    \A i \in 1..Len(list) : \A j \in 1..Len(list) :
        i < j => TextLeq(list[j].timestamp, list[i].timestamp)

\* the orders in which the cursor may return all rows of the table
RowOrders(table) ==
    {[i \in 1..Len(table) |-> table[p[i]]] :
        p \in {q \in [1..Len(table) -> 1..Len(table)] :
                  \A i, j \in 1..Len(table) : i # j => q[i] # q[j]}}

\* lines 225-232: the list get_research_history can return
SelectAllOrdered(table) == {l \in RowOrders(table) : OrderedByTimestampDesc(l)}

\* lines 238-241: the rows with the id (dict(row) keeps the columns as stored)
SelectById(table, research_id) ==
    {table[i] : i \in {k \in 1..Len(table) : table[k].id = research_id}}

(***************************************************************************)
(* perform_research (lines 243-312): the tests and the response shape      *)
(***************************************************************************)
\* a test that lets an empty search result through
NoSearchResults_Never(search_results) == FALSE

\* line 252: not search_results
NoSearchResults(search_results) == search_results = <<>>

\* line 263: if content
ContentTruthy(content) == content # 0

\* the test without the prefix inspection
SummaryFailed_EmptyOnly(summary) == summary = <<>>

\* line 278: not summary or summary.startswith("Failed to generate summary")
SummaryFailed(summary) == summary = <<>> \/ StartsWith(summary, FailurePrefix)

\* lines 287-293: title, url and snippet of each enriched result
RECURSIVE StripContent(_)
StripContent(enriched) ==
    IF enriched = <<>> THEN <<>>
    ELSE <<[title |-> Head(enriched).title, url |-> Head(enriched).url,
            snippet |-> Head(enriched).snippet]>> \o StripContent(Tail(enriched))

\* lines 285-295
ResponseData(text, enriched, summary) ==
    [query |-> text, results |-> StripContent(enriched), summary |-> summary]

NoResponse == [query |-> "", results |-> <<>>, summary |-> <<>>]

NoSummary == [raised |-> FALSE, summary |-> <<>>]

\* a request slot with no request in it
IdleRequest ==
    [pc |-> "idle", query |-> Query("q1", [kind |-> "absent", v |-> 0]),
     fetched |-> FALSE, parsed |-> 0, search_results |-> <<>>, i |-> 0,
     enriched |-> <<>>, summarized |-> NoSummary, saved |-> "no",
     status |-> 0, response |-> NoResponse]

\* outcomes of the INSERT on an existing table
InsertOutcomes == {"ok", "OperationalError"}

\* ids asked for by GET /history/{research_id}
ResearchIds == 1..(MaxRequests + 1)

NoRow == [id |-> 0, query |-> "", results |-> JsonDumps(NoResponse), timestamp |-> <<>>]

NoHistoryResp == [status |-> 0, body |-> <<>>]

NoResearchResp == [status |-> 0, id |-> 0, body |-> NoRow]

IdleProbe ==
    [stage |-> "idle", usable |-> FALSE, content |-> 0,
     resp |-> CHOOSE x \in Responses : TRUE]

(***************************************************************************)
(* State                                                                   *)
(***************************************************************************)
VARIABLES
    phase,          \* "boot" until the application is started, then "serving"
    tableExists,    \* research_history.db holds the table research_history
    rows,           \* the rows of the table, in rowid order
    lastId,         \* the largest id issued (sqlite_sequence)
    started,        \* POST /research requests started so far
    req,            \* per slot: the position and locals of perform_research;
                    \* "done" for the one step after the handler returned
    historyResp,    \* the response of GET /history, when the last step was one
    researchResp,   \* the same for GET /history/{research_id}
    probe           \* one call of extract_content on its own

vars == <<phase, tableExists, rows, lastId, started, req, historyResp,
          researchResp, probe>>

store == <<tableExists, rows, lastId>>

Init ==
    /\ phase = "boot"
    /\ tableExists = FALSE
    /\ rows = <<>>
    /\ lastId = 0
    /\ started = 0
    /\ req = [r \in Slots |-> IdleRequest]
    /\ historyResp = NoHistoryResp
    /\ researchResp = NoResearchResp
    /\ probe = IdleProbe

\* a step that is no history request leaves no history response behind
NoGetResponse ==
    /\ historyResp' = NoHistoryResp
    /\ researchResp' = NoResearchResp

\* the slots once the responses of the handlers that have returned are sent
Sent(slots) ==
    [s \in Slots |-> IF slots[s].pc = "done" THEN IdleRequest ELSE slots[s]]

\* a request takes the first slot that handles none
FirstFree(r) ==
    /\ req[r].pc \in {"idle", "done"}
    /\ r = "b" => req["a"].pc = "extract"

(***************************************************************************)
(* Start of the application                                                *)
(***************************************************************************)
\* lines 200-212: CREATE TABLE IF NOT EXISTS
init_db(exists) == TRUE

\* lines 330-332: python main.py
RunMain ==
    /\ phase = "boot"
    /\ tableExists' = init_db(tableExists)
    /\ phase' = "serving"
    /\ UNCHANGED <<rows, lastId, started, req, historyResp, researchResp, probe>>

\* the module imported by an ASGI server (uvicorn main:app): the guard at
\* line 330 is false and init_db is not called
ImportApp ==
    /\ phase = "boot"
    /\ phase' = "serving"
    /\ UNCHANGED <<store, started, req, historyResp, researchResp, probe>>

(***************************************************************************)
(* POST /research                                                          *)
(***************************************************************************)
\* lines 244-253 and 306-312: the request arrives, the search runs
Search(r, text, nr, fetch, page) ==
    /\ phase = "serving"
    /\ FirstFree(r)
    /\ started < MaxRequests
    /\ started' = started + 1
    /\ LET query == Query(text, nr)
           s == search_duckduckgo(fetch, page, query.num_results)
           base == [IdleRequest EXCEPT !.query = query,
                                       !.fetched = (fetch = "ok"),
                                       !.parsed = IF fetch = "ok"
                                                  THEN ParsedBlocks(page) ELSE 0]
       IN req' = [Sent(req) EXCEPT ![r] =
                    IF s.raised
                    THEN [base EXCEPT !.pc = "done", !.status = 500]
                    ELSE IF NoSearchResults(s.results)
                         THEN [base EXCEPT !.pc = "done", !.status = 404]
                         ELSE [base EXCEPT !.pc = "extract", !.i = 1,
                                           !.search_results = s.results]]
    /\ NoGetResponse
    /\ UNCHANGED <<phase, store, probe>>

\* lines 257-269: one turn of the loop over search_results
Extract(r, resp) ==
    /\ req[r].pc = "extract"
    /\ req[r].i <= Len(req[r].search_results)
    /\ LET result == req[r].search_results[req[r].i]
           content == extract_content(resp, MaxLength)
       IN req' = [Sent(req) EXCEPT
                    ![r].i = @ + 1,
                    ![r].enriched =
                        IF ContentTruthy(content)
                        THEN Append(@, [title |-> result.title, url |-> result.url,
                                        snippet |-> result.snippet,
                                        content |-> content])
                        ELSE @]
    /\ NoGetResponse
    /\ UNCHANGED <<phase, store, started, probe>>

\* lines 271-312: after the loop; summary, response, save, return
Complete(r, api, now, insert) ==
    /\ req[r].pc = "extract"
    /\ req[r].i > Len(req[r].search_results)
    /\ IF req[r].enriched = <<>>
       THEN /\ req' = [Sent(req) EXCEPT ![r].pc = "done", ![r].status = 500]
            /\ UNCHANGED store
       ELSE LET out == summarize_content(req[r].enriched, api)
                summary == IF SummaryFailed(out.summary) THEN Placeholder
                           ELSE out.summary
                response_data == ResponseData(req[r].query.text, req[r].enriched, summary)
                inserted == tableExists /\ insert = "ok"
            IN /\ rows' = IF inserted
                          THEN InsertRow(rows, lastId, req[r].query.text,
                                         response_data, IsoFormat(now))
                          ELSE rows
               /\ lastId' = IF inserted THEN lastId + 1 ELSE lastId
               /\ UNCHANGED tableExists
               /\ req' = [Sent(req) EXCEPT ![r].pc = "done", ![r].status = 200,
                                     ![r].summarized = out,
                                     ![r].saved = IF inserted THEN "ok" ELSE "raised",
                                     ![r].response = response_data]
    /\ NoGetResponse
    /\ UNCHANGED <<phase, started, probe>>

(***************************************************************************)
(* GET /history and GET /history/{research_id}                             *)
(***************************************************************************)
\* lines 315-317 with 225-232; a missing table raises OperationalError,
\* which the framework answers with 500
GetHistory ==
    /\ phase = "serving"
    /\ IF ~tableExists
       THEN historyResp' = [status |-> 500, body |-> <<>>]
       ELSE \E l \in SelectAllOrdered(rows) :
                historyResp' = [status |-> 200, body |-> l]
    /\ researchResp' = NoResearchResp
    /\ req' = Sent(req)
    /\ UNCHANGED <<phase, store, started, probe>>

\* lines 319-324 with 234-241
GetResearch(research_id) ==
    /\ phase = "serving"
    /\ IF ~tableExists
       THEN researchResp' = [status |-> 500, id |-> research_id, body |-> NoRow]
       ELSE LET found == SelectById(rows, research_id) IN
            IF found = {}
            THEN researchResp' = [status |-> 404, id |-> research_id, body |-> NoRow]
            ELSE \E row \in found :
                    researchResp' = [status |-> 200, id |-> research_id, body |-> row]
    /\ historyResp' = NoHistoryResp
    /\ req' = Sent(req)
    /\ UNCHANGED <<phase, store, started, probe>>

Next ==
    \/ RunMain
    \/ ImportApp
    \/ \E r \in Slots, text \in Texts, nr \in NumResultsInputs,
          fetch \in SearchFetches,
          page \in Pages :
            /\ fetch = "RequestException" => page = <<>>
            /\ Search(r, text, nr, fetch, page)
    \/ \E r \in Slots, resp \in Responses : Extract(r, resp)
    \/ \E r \in Slots, api \in ApiOutcomes, now \in Times, insert \in InsertOutcomes :
            Complete(r, api, now, insert)
    \/ GetHistory
    \/ \E id \in ResearchIds : GetResearch(id)

Spec == Init /\ [][Next]_vars

(***************************************************************************)
(* extract_content on its own: one call on each response                   *)
(***************************************************************************)
InitFetch ==
    /\ phase = "boot"
    /\ tableExists = FALSE
    /\ rows = <<>>
    /\ lastId = 0
    /\ started = 0
    /\ req = [r \in Slots |-> IdleRequest]
    /\ historyResp = NoHistoryResp
    /\ researchResp = NoResearchResp
    /\ \E resp \in Responses : probe = [IdleProbe EXCEPT !.stage = "called", !.resp = resp]

\* lines 88-150
CallExtractContent ==
    /\ probe.stage = "called"
    /\ probe' = [probe EXCEPT !.stage = "returned",
                              !.usable = FetchUsable(probe.resp),
                              !.content = extract_content(probe.resp, MaxLength)]
    /\ UNCHANGED <<phase, store, started, req, historyResp, researchResp>>

NextFetch == CallExtractContent

SpecFetch == InitFetch /\ [][NextFetch]_vars

(***************************************************************************)
(* The history store on its own: save_research and the two reads, called   *)
(* in any order on the table that init_db created                          *)
(***************************************************************************)
\* rows the table may hold
MaxRows == 3

\* payloads handed to save_research
Payloads ==
    {ResponseData(text, e, Placeholder) :
        text \in Texts,
        e \in {<<[title |-> 1, url |-> 1, snippet |-> "snip", content |-> 10]>>,
               <<[title |-> 1, url |-> 1, snippet |-> "snip", content |-> 10],
                 [title |-> 2, url |-> 2, snippet |-> "snip", content |-> 10]>>}}

InitStore ==
    /\ phase = "serving"
    /\ tableExists = init_db(FALSE)
    /\ rows = <<>>
    /\ lastId = 0
    /\ started = 0
    /\ req = [r \in Slots |-> IdleRequest]
    /\ historyResp = NoHistoryResp
    /\ researchResp = NoResearchResp
    /\ probe = IdleProbe

\* lines 214-223
save_research(query, results, now) ==
    /\ tableExists
    /\ Len(rows) < MaxRows
    /\ rows' = InsertRow(rows, lastId, query, results, IsoFormat(now))
    /\ lastId' = lastId + 1
    /\ NoGetResponse
    /\ UNCHANGED <<phase, tableExists, started, req, probe>>

NextStore ==
    \/ \E results \in Payloads, now \in Times :
            save_research(results.query, results, now)
    \/ GetHistory
    \/ \E id \in 1..(MaxRows + 1) : GetResearch(id)

SpecStore == InitStore /\ [][NextStore]_vars

(***************************************************************************)
(* Properties                                                              *)
(***************************************************************************)
Last(seq) == seq[Len(seq)]

\* the handler of slot r has returned in the step that led to this state
Returned(slots, r) == slots[r].pc = "done"

\* C1: a POST /research whose search step yields zero parsed result blocks
\* (also when the search fetch fails) ends with 404, never calls
\* save_research and leaves the history table as it was.
C1_NoResultsNotFound ==
    [][\A r \in Slots :
          (Returned(req', r) /\ req'[r].parsed = 0)
             => /\ req'[r].status = 404
                /\ req'[r].saved = "no"
                /\ rows' = rows
                /\ lastId' = lastId]_vars

C1_Witness ==
    \E r \in Slots :
        /\ Returned(req, r) /\ req[r].parsed = 0 /\ req[r].status = 404
        /\ ~req[r].fetched
        /\ rows # <<>>

\* C2: a POST /research that ends with 200 has at most num_results results
\* in its response, and at most as many as result blocks were parsed, for
\* every accepted num_results (0 and negative values included).
C2_AtMostNumResults ==
    \A r \in Slots :
        (Returned(req, r) /\ req[r].status = 200)
           => /\ Len(req[r].response.results) <= req[r].query.num_results.v
              /\ Len(req[r].response.results) <= req[r].parsed

\* C3: when the search returns a non-empty list, results with empty
\* extraction are kept, so the request reaches the summarizer for every mix
\* of extraction outcomes and the successful response has one entry per
\* search result, in search order.
C3_EveryResultKept ==
    \A r \in Slots :
        (Returned(req, r) /\ req[r].search_results # <<>>)
           => /\ req[r].status = 200
              /\ req[r].response.results = req[r].search_results

\* C4, original statement: when the summarizer's backend call raises, the request
\* ends with 200 and the summary of the response is the failure message
\* that embeds the error text.
C4_SummaryEmbedsError ==
    \A r \in Slots :
        (Returned(req, r) /\ req[r].summarized.raised)
           => /\ req[r].status = 200
              /\ req[r].response.summary = req[r].summarized.summary

\* C4 amended: when the summarizer's backend call raises, summarize_content
\* returns the failure message that embeds the error text, the request ends
\* with 200, and the summary of the response and of the saved record is the
\* fixed placeholder, which does not embed the error text.
C4_SummaryIsPlaceholder ==
    \A r \in Slots :
        (Returned(req, r) /\ req[r].summarized.raised)
           => /\ req[r].status = 200
              /\ Len(req[r].summarized.summary) = 3
              /\ SubSeq(req[r].summarized.summary, 1, 2) = <<FailurePrefix, ". Error: ">>
              /\ req[r].response.summary = Placeholder
              /\ req[r].saved = "ok" => JsonLoads(Last(rows).results).summary = Placeholder

C4_Witness ==
    \E r \in Slots :
        /\ Returned(req, r) /\ req[r].summarized.raised /\ req[r].status = 200
        /\ req[r].saved = "ok"

\* C5: fetching a saved record by its id returns a results field that is
\* the saved payload in structured form, not its serialized text.
C5_RoundTrip ==
    researchResp.status = 200
       => \E i \in 1..Len(rows) :
             /\ rows[i].id = researchResp.id
             /\ researchResp.body.query = rows[i].query
             /\ researchResp.body.results = JsonLoads(rows[i].results)

\* C6: GET /history/{id} for an id that no save has issued ends with 404,
\* never with a server error, whichever way the app was started.
C6_UnknownIdNotFound ==
    (researchResp.status # 0 /\ researchResp.id > lastId)
       => researchResp.status = 404

\* C7, original statement: every request that ends with 200 has added exactly one
\* row whose query is the request text, also when the insert raises.
C7_OneRowPerSuccess ==
    [][\A r \in Slots :
          (Returned(req', r) /\ req'[r].status = 200)
             => /\ Len(rows') = Len(rows) + 1
                /\ Last(rows').query = req'[r].query.text]_vars

\* C7 amended: a request that ends with 200 has added exactly one row,
\* whose query is the request text, when the insert succeeded, and no row
\* when the insert raised; no other step adds a row.
C7_OneRowUnlessInsertRaises ==
    [][/\ \A r \in Slots :
            (Returned(req', r) /\ req'[r].status = 200)
               => IF req'[r].saved = "ok"
                  THEN /\ Len(rows') = Len(rows) + 1
                       /\ SubSeq(rows', 1, Len(rows)) = rows
                       /\ Last(rows').query = req'[r].query.text
                  ELSE rows' = rows
       /\ rows' # rows
            => \E r \in Slots :
                  Returned(req', r) /\ req'[r].status = 200 /\ req'[r].saved = "ok"]_vars

C7_Witness ==
    \E r \in Slots :
        /\ Returned(req, r) /\ req[r].status = 200 /\ req[r].saved = "raised"
        /\ tableExists
        /\ Len(rows) = 1

\* C8: after any saves, also with equal or backward timestamps, GET /history
\* returns every persisted record exactly once, with timestamps that do not
\* increase from first to last.
C8_HistoryNewestFirst ==
    /\ (historyResp.status # 0 /\ rows # <<>>) => historyResp.status = 200
    /\ historyResp.status = 200
       => /\ Len(historyResp.body) = Len(rows)
          /\ \A i \in 1..Len(rows) :
                Cardinality({j \in 1..Len(historyResp.body) :
                                historyResp.body[j] = rows[i]}) = 1
          /\ \A i, j \in 1..Len(historyResp.body) :
                i < j => TimeLeq(FromIsoFormat(historyResp.body[j].timestamp),
                                 FromIsoFormat(historyResp.body[i].timestamp))

\* three records, the first saved carrying the latest time and two equal
C8_Witness ==
    /\ historyResp.status = 200
    /\ Len(historyResp.body) = 3
    /\ historyResp.body[1].id = 1
    /\ historyResp.body[2].timestamp = historyResp.body[3].timestamp
    /\ historyResp.body[1].timestamp # historyResp.body[2].timestamp

\* C9: the table is append-only under any interleaving of requests: a
\* record present stays as it is in every later state, none is removed, and
\* a save adds one row whose id differs from every id present.
C9_AppendOnly ==
    [][/\ Len(rows') \in {Len(rows), Len(rows) + 1}
       /\ \A i \in 1..Len(rows) : rows'[i] = rows[i]
       /\ Len(rows') = Len(rows) + 1
            => \A i \in 1..Len(rows) : rows[i].id # Last(rows').id]_vars

\* the request that started second, while the first was in progress, saves
\* the second row
C9_Witness ==
    /\ Len(rows) = 2
    /\ Returned(req, "b") /\ req["b"].saved = "ok"

\* C10: the page fetch of extract_content fails only when the network call
\* raises, the status is an error, or the declared content type is not
\* HTML; a success response declaring text/html goes on to extraction.
C10_HtmlIsUsable ==
    probe.stage = "returned"
       => (probe.usable
             <=> /\ probe.resp.net = "ok"
                 /\ probe.resp.status < 400
                 /\ ContainsTextHtml(Lower(HeadersGet(probe.resp.headers,
                                                      "Content-Type", ""))))

====
